---- MODULE Spec2Model ----
(***************************************************************************)
(* Model of klippy/extras/T5UIC1.py: the T5UIC1_LCD serial display driver. *)
(* The frame builder (byte/word/long/double_64/string/send), the command   *)
(* set built on it, the handshake of init_display and the lock-protected   *)
(* receive buffer shared by the transport's receive callback and the       *)
(* driver's _serial_read.                                                  *)
(***************************************************************************)
EXTENDS Integers, Sequences, FiniteSets, TLC

VARIABLES
    data_frame,   \* self.data_frame: the bytes of the frame under construction
    appended,     \* the bytes byte/word/long/double_64/string appended since the last send()
    wlog,         \* every self.serial.write(...), in order: a sequence of byte sequences
    exc,          \* how the driver's last finished call ended: "None" or an exception name
    call,         \* the driver's last top-level call: [name, bad, args, frame] (bad: an
                  \* argument was replaced by a value outside its field; args: the arguments
                  \* otherwise; frame: self.data_frame when the call started)
    nlog0,        \* Len(wlog) when that call started
    ncalls,       \* number of top-level calls made so far
    pc,           \* position of the driver thread
    caller,       \* who called handshake(): "init_display" or "top"
    req,          \* handshake local: poll index
    databuf,      \* handshake local: collected bytes, None where nothing was stored
    data_read,    \* the value _serial_read() holds / returned last (local `data`)
    retval,       \* what the last handshake() returned: "True", "False" or "none"
    polls,        \* number of _serial_read() calls of the current handshake() call
    attempts,     \* number of handshake() calls started
    collected,    \* the bytes the current handshake() call got from _serial_read(), in order
    serial_data,  \* self.serial_data: the receive buffer
    lock,         \* self.lock: "free", or the thread holding it
    cb_pc,        \* position of the transport's receive-callback thread
    cb_data,      \* bytes of the callback's `data` not appended yet
    cb_exc,       \* how the last finished callback ended
    ncb,          \* number of callback invocations so far
    arrived,      \* every byte appended to serial_data, in order
    drained,      \* the chunks _serial_read() returned, in order
    sr_depth,     \* "top" when _serial_read was called directly, "handshake" from handshake()
    cls_data_frame,  \* T5UIC1_LCD.data_frame, the list of the class attribute, as the two
                     \* instances see it: its elements, each with the instance that appended it
    inst,         \* per instance: whether send() has rebound self.data_frame (own), and then
                  \* the bytes object it is bound to (frame)
    inst_wlog,    \* per instance: the writes on its transport, in order
    inst_exc,     \* per instance: how its last call ended
    ninst         \* number of calls made on the two instances

frame_vars == <<data_frame, appended, wlog, exc, call, nlog0, ncalls>>
hs_vars    == <<caller, req, databuf, retval, polls, attempts, collected>>
rx_vars    == <<serial_data, lock, data_read, drained, sr_depth>>
cb_vars    == <<cb_pc, cb_data, cb_exc, ncb, arrived>>
inst_vars  == <<cls_data_frame, inst, inst_wlog, inst_exc, ninst>>
vars       == <<frame_vars, pc, hs_vars, rx_vars, cb_vars, inst_vars>>

(***************************************************************************)
(* Bounds of the model.                                                    *)
(***************************************************************************)
MaxCmds     == 2   \* top-level command calls per behaviour
MaxAttempts == 2   \* handshake() calls started per behaviour
MaxCallbacks == 2  \* receive-callback invocations per behaviour
MaxReads    == 3   \* _serial_read() calls made directly by a caller, per behaviour
MaxInstCalls == 3  \* calls made on the two instances together, per behaviour

(***************************************************************************)
(* Class constants (lines 12-89).  A name assigned twice in the class body *)
(* keeps the later value: cmd_draw_line is 0x51.                           *)
(***************************************************************************)
screen_width   == 272
screen_height  == 480
data_frame_head == <<170>>                \* b"\xAA"
data_frame_tail == <<204, 51, 195, 60>>  \* [0xCC, 0x33, 0xC3, 0x3C]
color_black    == 0
color_white    == 65535
color_yellow   == 65295
cmd_handshake  == 0
cmd_draw_rect  == 5
cmd_draw_value == 20
cmd_frame_setdir == 52
cmd_update_lcd == 61
cmd_set_palette == 64
cmd_draw_line  == 81
cmd_clear_screen == 82
cmd_draw_rectangle == 89
cmd_fill_rectangle == 91
cmd_reverse_color_area == 92
cmd_backlight_brightness == 48
cmd_move_screen_area == 9
cmd_draw_icon  == 35
cmd_draw_text  == 17
cmd_draw_int   == 20
cmd_show_image == 8704
cmd_jpeg_showandcache == 8704
max_retry      == 26

None == "None"

(***************************************************************************)
(* Python integer helpers.                                                 *)
(***************************************************************************)
\* v >> (8*n) for v >= 0
RECURSIVE ShiftBytes(_, _)
ShiftBytes(v, n) == IF n = 0 THEN v ELSE ShiftBytes(v \div 256, n - 1)

\* int.to_bytes(n, "big") succeeds iff 0 <= v < 256^n; otherwise OverflowError
Fits(v, n) == v >= 0 /\ ShiftBytes(v, n) = 0

RECURSIVE to_bytes(_, _)
\* to_bytes as it would be with byteorder="little"
to_bytes_little(v, n) == IF n = 0 THEN <<>> ELSE <<v % 256>> \o to_bytes(v \div 256, n - 1)

\* the n bytes of int(v).to_bytes(n, byteorder="big"), for a v that fits
to_bytes(v, n) == IF n = 0 THEN <<>> ELSE Append(to_bytes(v \div 256, n - 1), v % 256)

\* a & b for a, b >= 0
RECURSIVE BitAnd(_, _)
BitAnd(a, b) ==
    IF a = 0 \/ b = 0 THEN 0
    ELSE (a % 2) * (b % 2) + 2 * BitAnd(a \div 2, b \div 2)

\* a | b for b >= 0 and any a (Python ints are two's complement of unbounded width)
BitOr(a, b) ==
    IF a >= 0 THEN a + b - BitAnd(a, b)
    ELSE -1 - ((-1 - a) - BitAnd(-1 - a, b))

PyMax(a, b) == IF a >= b THEN a ELSE b

\* str.encode("utf-8") of a string given as its code points (below U+0800)
RECURSIVE encode_utf8(_)
encode_utf8(s) ==
    IF s = <<>> THEN <<>>
    ELSE LET c == Head(s) IN
         (IF c < 128 THEN <<c>> ELSE <<192 + (c \div 64), 128 + (c % 64)>>)
            \o encode_utf8(Tail(s))

\* string[:40]
Slice40(s) == IF Len(s) <= 40 THEN s ELSE SubSeq(s, 1, 40)

(***************************************************************************)
(* Frame builder (lines 117-177).  A builder state is [frame, app, log,    *)
(* exc]: the frame under construction, the bytes appended to it since the  *)
(* last send(), the transport's write log, and the exception that ended    *)
(* the call so far ("None" while it is running).                           *)
(* A command is the sequence of builder calls its body makes; Exec runs    *)
(* them in order and stops at the first one that raises.                   *)
(***************************************************************************)
byte(v)      == [op |-> "pack", n |-> 1, v |-> v, s |-> <<>>]
word(v)      == [op |-> "pack", n |-> 2, v |-> v, s |-> <<>>]
long(v)      == [op |-> "pack", n |-> 4, v |-> v, s |-> <<>>]
double_64(v) == [op |-> "pack", n |-> 8, v |-> v, s |-> <<>>]
string(s)    == [op |-> "string", n |-> 0, v |-> 0, s |-> s]
send         == [op |-> "send", n |-> 0, v |-> 0, s |-> <<>>]

\* self.data_frame += int(v).to_bytes(n, byteorder="big"): to_bytes raises
\* OverflowError before anything is appended
do_pack(st, n, v) ==
    IF Fits(v, n)
    THEN [st EXCEPT !.frame = @ \o to_bytes(v, n), !.app = @ \o to_bytes(v, n)]
    ELSE [st EXCEPT !.exc = "OverflowError"]

\* self.data_frame += string.encode("utf-8")
do_string(st, s) ==
    [st EXCEPT !.frame = @ \o encode_utf8(s), !.app = @ \o encode_utf8(s)]

\* send() as it would be with the two writes in the other order
do_send_tail_first(st) ==
    [st EXCEPT !.log = Append(Append(@, data_frame_tail), st.frame),
               !.frame = data_frame_head,
               !.app = <<>>]

\* send() as it would be if it reset the frame to the empty frame
do_send_reset_empty(st) ==
    [st EXCEPT !.log = Append(Append(@, st.frame), data_frame_tail),
               !.frame = <<>>,
               !.app = <<>>]

\* send(): write the frame, write the tail, reset the frame to data_frame_head
do_send(st) ==
    [st EXCEPT !.log = Append(Append(@, st.frame), data_frame_tail),
               !.frame = data_frame_head,
               !.app = <<>>]

Step(st, i) ==
    CASE i.op = "pack"   -> do_pack(st, i.n, i.v)
      [] i.op = "string" -> do_string(st, i.s)
      [] i.op = "send"   -> do_send(st)

\* the calls of prog in order (first half, then second half), none after one that raised
RECURSIVE Exec(_, _)
Exec(st, prog) ==
    IF prog = <<>> \/ st.exc # None THEN st
    ELSE IF Len(prog) = 1 THEN Step(st, prog[1])
    ELSE LET h == Len(prog) \div 2
         IN  Exec(Exec(st, SubSeq(prog, 1, h)), SubSeq(prog, h + 1, Len(prog)))

(***************************************************************************)
(* Commands (lines 214-731), each as the builder calls of its body.        *)
(***************************************************************************)
frame_setdir(dir) ==
    <<byte(cmd_frame_setdir), byte(90), byte(165), byte(dir), send>>

update_lcd == <<byte(cmd_update_lcd), send>>

\* set_backlight_brightness as it would be without the floor of 0x1f
set_backlight_brightness_no_floor(brightness) ==
    <<byte(cmd_backlight_brightness), byte(brightness), send>>

set_backlight_brightness(brightness) ==
    <<byte(cmd_backlight_brightness), byte(PyMax(brightness, 31)), send>>

jpg_showandcache(id) == <<word(cmd_jpeg_showandcache), byte(id), send>>

set_palette(background_color, foreground_color) ==
    <<byte(cmd_set_palette), word(foreground_color), word(background_color), send>>

clear_screen(color) == <<byte(cmd_clear_screen), word(color), send>>

\* p_x, p_y arrive here already as int(p_x), int(p_y): see draw_circle
draw_point(color, w_x, w_y, p_x, p_y) ==
    <<byte(cmd_draw_line), word(color), byte(w_x), byte(w_y),
      word(p_x), word(p_y), send>>

draw_line(color, x_start, y_start, x_end, y_end) ==
    <<byte(cmd_draw_line), word(color), word(x_start), word(y_start),
      word(x_end), word(y_end), send>>

\* draw_rectangle as it would be if it sent the opcode looked up for the mode
draw_rectangle_opcode_by_mode(mode, color, x_start, y_start, x_end, y_end) ==
    set_palette(color_white, color)
    \o <<byte(CASE mode = 0 -> cmd_draw_rectangle
               [] mode = 1 -> cmd_fill_rectangle
               [] mode = 2 -> cmd_reverse_color_area
               [] OTHER -> 0),
         byte(mode), word(x_start), word(y_start), word(x_end), word(y_end), send>>

\* mode_to_command.get(mode, 0) is computed and never used
draw_rectangle(mode, color, x_start, y_start, x_end, y_end) ==
    set_palette(color_white, color)
    \o <<byte(cmd_draw_rect), byte(mode), word(x_start), word(y_start),
         word(x_end), word(y_end), send>>

\* draw_string as it would be with show_background on bit 7 and width_adjust on bit 6
draw_string_show_on_bit7(show_background, size, font_color, background_color, x, y, str) ==
    <<byte(cmd_draw_text),
      byte(BitOr(BitOr(size, show_background * 128), 1 * 64)),
      word(font_color), word(background_color), word(x), word(y),
      string(Slice40(str)), send>>

draw_string(show_background, size, font_color, background_color, x, y, str) ==
    <<byte(cmd_draw_text),
      byte(BitOr(BitOr(size, show_background * 64), 1 * 128)),
      word(font_color), word(background_color), word(x), word(y),
      string(Slice40(str)), send>>

ModeByte(show_background, zeroFill, zeroMode, size) ==
    BitOr(BitOr(BitOr(BitOr(show_background * 128, 0 * 64), zeroFill * 32),
                zeroMode * 16), size)

draw_int_value(show_background, zeroFill, zeroMode, font_size, color, background_color, iNum, x, y, value) ==
    <<byte(cmd_draw_int), byte(ModeByte(show_background, zeroFill, zeroMode, font_size)),
      word(color), word(background_color), byte(iNum), byte(0),
      word(x), word(y), double_64(value), send>>

draw_float_value(show_background, zeroFill, zeroMode, size, color, background_color, iNum, fNum, x, y, value) ==
    <<byte(cmd_draw_value), byte(ModeByte(show_background, zeroFill, zeroMode, size)),
      word(color), word(background_color), byte(iNum), byte(fNum),
      word(x), word(y), long(value), send>>

\* draw_signed_float as it would be with the number drawn before its sign
draw_signed_float_value_first(show_background, size, color, background_color, iNum, fNum, x, y, value) ==
    IF value < 0
    THEN draw_float_value(show_background, 0, 0, size, color, background_color,
                          iNum, fNum, x, y, -value)
         \o draw_string(show_background, size, color, background_color, x - 6, y - 3, <<45>>)
    ELSE draw_float_value(show_background, 0, 0, size, color, background_color,
                          iNum, fNum, x, y, value)
         \o draw_string(show_background, size, color, background_color, x - 6, y - 3, <<32>>)

\* "-" is code point 45, " " is 32
draw_signed_float(show_background, size, color, background_color, iNum, fNum, x, y, value) ==
    IF value < 0
    THEN draw_string(show_background, size, color, background_color, x - 6, y - 3, <<45>>)
         \o draw_float_value(show_background, 0, 0, size, color, background_color,
                             iNum, fNum, x, y, -value)
    ELSE draw_string(show_background, size, color, background_color, x - 6, y - 3, <<32>>)
         \o draw_float_value(show_background, 0, 0, size, color, background_color,
                             iNum, fNum, x, y, value)

\* draw_icon as it would be without the clamp of the position
draw_icon_no_clamp(show_background, libID, picID, x, y) ==
    <<byte(cmd_draw_icon), word(x), word(y), byte(libID), word(picID), send>>

draw_icon(show_background, libID, picID, x, y) ==
    LET cx == IF x > screen_width - 1 THEN screen_width - 1 ELSE x
        cy == IF y > screen_height - 1 THEN screen_height - 1 ELSE y
    IN  <<byte(cmd_draw_icon), word(cx), word(cy), byte(libID), word(picID), send>>

draw_image(id) == <<byte(cmd_show_image), byte(id), send>>

move_screen_area(direction, offset, background_color, x_start, y_start, x_end, y_end) ==
    <<byte(cmd_move_screen_area), byte(BitOr(direction, 128)), word(offset),
      word(background_color), word(x_start), word(y_start), word(x_end),
      word(y_end), send>>

(***************************************************************************)
(* draw_circle (lines 349-394).  b is a Python float: it is kept as        *)
(* [fl, ex], its floor and whether it is an integer.  int() truncates      *)
(* towards zero.                                                           *)
(***************************************************************************)
Isqrt(n) == CHOOSE k \in 0..n : k * k <= n /\ (k + 1) * (k + 1) > n

\* math.sqrt(n), n >= 0
sqrt(n) == [fl |-> Isqrt(n), ex |-> Isqrt(n) * Isqrt(n) = n]

\* int(x + b)
int_add(x, b) ==
    IF b.ex \/ x + b.fl >= 0 THEN x + b.fl ELSE x + b.fl + 1

\* int(x - b)
int_sub(x, b) ==
    IF b.ex \/ x - b.fl <= 0 THEN x - b.fl ELSE x - b.fl - 1

\* the eight draw_point calls of one pass of the loop body
circle_points(color, x_center, y_center, a, b) ==
    draw_point(color, 1, 1, x_center + a, int_add(y_center, b))
    \o draw_point(color, 1, 1, int_add(x_center, b), y_center + a)
    \o draw_point(color, 1, 1, int_add(x_center, b), y_center - a)
    \o draw_point(color, 1, 1, x_center + a, int_sub(y_center, b))
    \o draw_point(color, 1, 1, x_center - a, int_sub(y_center, b))
    \o draw_point(color, 1, 1, int_sub(x_center, b), y_center - a)
    \o draw_point(color, 1, 1, int_sub(x_center, b), y_center + a)
    \o draw_point(color, 1, 1, x_center - a, int_add(y_center, b))

RECURSIVE circle_loop(_, _, _, _, _, _)
\* the loop as it would be if its test read the b of the pass it is about to make
circle_loop_tests_own_b(color, x_center, y_center, r, a, b) ==
    LET s  == sqrt(r * r - a * a)
        nb == IF a = 0 THEN [s EXCEPT !.fl = @ - 1] ELSE s
    IN  IF a <= nb.fl
        THEN circle_points(color, x_center, y_center, a, nb)
             \o circle_loop(color, x_center, y_center, r, a + 1, nb)
        ELSE <<>>

\* the loop from its test `a <= b`, b being the value left by the previous pass
circle_loop(color, x_center, y_center, r, a, b) ==
    IF a <= b.fl
    THEN LET s  == sqrt(r * r - a * a)
             nb == IF a = 0 THEN [s EXCEPT !.fl = @ - 1] ELSE s
         IN  circle_points(color, x_center, y_center, a, nb)
             \o circle_loop(color, x_center, y_center, r, a + 1, nb)
    ELSE <<>>

draw_circle(color, x_center, y_center, r) ==
    circle_loop(color, x_center, y_center, r, 0, [fl |-> 0, ex |-> TRUE])

(***************************************************************************)
(* State after __init__ (lines 92-105) of the first instance of the class: *)
(* the class attribute data_frame is still the empty list.                 *)
(***************************************************************************)
NoByte == -1   \* a None entry of databuf

\* two instances of T5UIC1_LCD, each constructed on a transport of its own;
\* __init__ assigns no data_frame, so both start on the class attribute
Instances == {1, 2}

Init ==
    /\ data_frame = <<>>
    /\ appended = <<>>
    /\ wlog = <<>>
    /\ exc = None
    /\ call = [name |-> "none", bad |-> FALSE, args |-> <<>>, frame |-> <<>>]
    /\ nlog0 = 0
    /\ ncalls = 0
    /\ pc = "idle"
    /\ caller = "none"
    /\ req = 0
    /\ databuf = [i \in 0..(max_retry - 1) |-> NoByte]
    /\ data_read = <<>>
    /\ retval = "none"
    /\ polls = 0
    /\ attempts = 0
    /\ collected = <<>>
    /\ serial_data = <<>>
    /\ lock = "free"
    /\ cb_pc = "idle"
    /\ cb_data = <<>>
    /\ cb_exc = None
    /\ ncb = 0
    /\ arrived = <<>>
    /\ drained = <<>>
    /\ sr_depth = "none"
    /\ cls_data_frame = <<>>
    /\ inst = [i \in Instances |-> [own |-> FALSE, frame |-> <<>>]]
    /\ inst_wlog = [i \in Instances |-> <<>>]
    /\ inst_exc = [i \in Instances |-> None]
    /\ ninst = 0

(***************************************************************************)
(* Arguments of the calls.  Each command is called with in-range arguments *)
(* and with one argument replaced by an out-of-range value of its field:   *)
(* -1 or 256 for a byte, -1 or 65536 for a word, -1 for a long and for a   *)
(* double (width 0 marks an argument that is never replaced).              *)
(***************************************************************************)
BadValues(w) ==
    CASE w = 1 -> {-1, 256}
      [] w = 2 -> {-1, 65536}
      [] w = 4 -> {-1}
      [] w = 8 -> {-1}
      [] OTHER -> {}

Inputs(base, widths) ==
    {[args |-> base, bad |-> FALSE]}
    \cup UNION {{[args |-> [base EXCEPT ![i] = v], bad |-> TRUE] : v \in BadValues(widths[i])}
                : i \in DOMAIN base}

(***************************************************************************)
(* A top-level call of a command by the driver's caller: the whole body    *)
(* runs, up to the exception that ends it.                                 *)
(***************************************************************************)
\* the builder state a call starts from
Builder == [frame |-> data_frame, app |-> appended, log |-> wlog, exc |-> None]

Call(name, i, prog) ==
    /\ pc = "idle"
    /\ ncalls < MaxCmds
    /\ LET r == Exec(Builder, prog)
       IN  /\ data_frame' = r.frame
           /\ appended' = r.app
           /\ wlog' = r.log
           /\ exc' = r.exc
    /\ call' = [name |-> name, bad |-> i.bad, args |-> IF i.bad THEN <<>> ELSE i.args,
                frame |-> data_frame]
    /\ nlog0' = Len(wlog)
    /\ ncalls' = ncalls + 1
    /\ UNCHANGED inst_vars
    /\ UNCHANGED <<pc, hs_vars, rx_vars, cb_vars>>

FrameSetdir ==
    \E i \in Inputs(<<1>>, <<1>>) :
        Call("frame_setdir", i, frame_setdir(i.args[1]))

UpdateLcd == Call("update_lcd", [args |-> <<>>, bad |-> FALSE], update_lcd)

SetBacklightBrightness ==
    \E i \in Inputs(<<0>>, <<1>>)
             \cup UNION {Inputs(<<b>>, <<0>>) : b \in {30, 31, 32, 64, 255}} :
        Call("set_backlight_brightness", i, set_backlight_brightness(i.args[1]))

JpgShowAndCache ==
    \E i \in Inputs(<<0>>, <<1>>) :
        Call("jpg_showandcache", i, jpg_showandcache(i.args[1]))

SetPalette ==
    \E i \in Inputs(<<color_black, color_white>>, <<2, 2>>) :
        Call("set_palette", i, set_palette(i.args[1], i.args[2]))

ClearScreen ==
    \E i \in Inputs(<<color_black>>, <<2>>) :
        Call("clear_screen", i, clear_screen(i.args[1]))

DrawIcon ==
    \E i \in Inputs(<<1, 9, 3, 10, 20>>, <<0, 1, 2, 2, 2>>)
             \cup Inputs(<<1, 9, 3, screen_width, screen_height>>, <<0, 0, 0, 0, 0>>)
             \cup Inputs(<<0, 9, 3, 0, 0>>, <<0, 0, 0, 0, 0>>)
             \cup Inputs(<<1, 9, 3, 271, 479>>, <<0, 0, 0, 0, 0>>)
             \cup Inputs(<<1, 9, 3, 300, 5>>, <<0, 0, 0, 0, 0>>)
             \cup Inputs(<<1, 9, 3, 70000, 100000>>, <<0, 0, 0, 0, 0>>) :
        Call("draw_icon", i,
             draw_icon(i.args[1], i.args[2], i.args[3], i.args[4], i.args[5]))

DrawImage ==
    \E i \in Inputs(<<1>>, <<1>>) \cup Inputs(<<0>>, <<0>>) \cup Inputs(<<255>>, <<0>>) :
        Call("draw_image", i, draw_image(i.args[1]))

DrawPoint ==
    \E i \in Inputs(<<color_yellow, 1, 1, 10, 20>>, <<2, 1, 1, 2, 2>>) :
        Call("draw_point", i,
             draw_point(i.args[1], i.args[2], i.args[3], i.args[4], i.args[5]))

DrawLine ==
    \E i \in Inputs(<<color_yellow, 10, 20, 30, 40>>, <<2, 2, 2, 2, 2>>) :
        Call("draw_line", i,
             draw_line(i.args[1], i.args[2], i.args[3], i.args[4], i.args[5]))

DrawRectangle ==
    \E i \in Inputs(<<0, color_yellow, 10, 20, 30, 40>>, <<1, 2, 2, 2, 2, 2>>)
             \cup Inputs(<<1, color_yellow, 10, 20, 30, 40>>, <<0, 0, 0, 0, 0, 0>>)
             \cup Inputs(<<2, color_yellow, 10, 20, 30, 40>>, <<0, 0, 0, 0, 0, 0>>) :
        Call("draw_rectangle", i,
             draw_rectangle(i.args[1], i.args[2], i.args[3], i.args[4],
                            i.args[5], i.args[6]))

DrawCircle ==
    \E i \in Inputs(<<color_yellow, 100, 100, 2>>, <<2, 2, 2, 0>>)
             \cup Inputs(<<color_yellow, 100, 100, 1>>, <<0, 0, 0, 0>>)
             \cup Inputs(<<color_yellow, 100, 100, 3>>, <<0, 0, 0, 0>>)
             \cup Inputs(<<color_yellow, 100, 100, 4>>, <<0, 0, 0, 0>>)
             \cup Inputs(<<color_yellow, 100, 100, 5>>, <<0, 0, 0, 0>>)
             \cup Inputs(<<color_white, 50, 60, 6>>, <<0, 0, 0, 0>>) :
        Call("draw_circle", i,
             draw_circle(i.args[1], i.args[2], i.args[3], i.args[4]))

\* "Hé": code points 72, 233
DrawString ==
    \E i \in Inputs(<<1, 2, color_white, color_black, 10, 20>>, <<0, 1, 2, 2, 2, 2>>)
             \cup UNION {Inputs(<<sb, sz, color_white, color_black, 10, 20>>, <<0, 0, 0, 0, 0, 0>>) :
                            sb \in {0, 1}, sz \in (0..10) \cup {16}} :
        Call("draw_string", i,
             draw_string(i.args[1], i.args[2], i.args[3], i.args[4], i.args[5],
                         i.args[6], <<72, 233>>))

DrawIntValue ==
    \E i \in Inputs(<<1, 1, 0, 2, color_white, color_black, 3, 10, 20, 123>>,
                    <<0, 0, 0, 1, 2, 2, 1, 2, 2, 8>>)
             \cup UNION {Inputs(<<1, 1, 0, sz, color_white, color_black, 3, 10, 20, 123>>,
                                <<0, 0, 0, 0, 0, 0, 0, 0, 0, 0>>) : sz \in {9, 10, 16}} :
        Call("draw_int_value", i,
             draw_int_value(i.args[1], i.args[2], i.args[3], i.args[4], i.args[5],
                            i.args[6], i.args[7], i.args[8], i.args[9], i.args[10]))

DrawFloatValue ==
    \E i \in Inputs(<<1, 0, 1, 2, color_white, color_black, 3, 1, 10, 20, 123>>,
                    <<0, 0, 0, 1, 2, 2, 1, 1, 2, 2, 4>>)
             \cup UNION {Inputs(<<1, 0, 1, sz, color_white, color_black, 3, 1, 10, 20, 123>>,
                                <<0, 0, 0, 0, 0, 0, 0, 0, 0, 0, 0>>) : sz \in {9, 10, 16}} :
        Call("draw_float_value", i,
             draw_float_value(i.args[1], i.args[2], i.args[3], i.args[4], i.args[5],
                              i.args[6], i.args[7], i.args[8], i.args[9], i.args[10],
                              i.args[11]))

DrawSignedFloat ==
    \E i \in Inputs(<<1, 2, color_white, color_black, 3, 1, 10, 20, -5>>,
                    <<0, 1, 2, 2, 1, 1, 2, 2, 0>>)
             \cup Inputs(<<1, 2, color_white, color_black, 3, 1, 10, 20, 7>>,
                         <<0, 0, 0, 0, 0, 0, 0, 0, 0>>)
             \cup Inputs(<<0, 2, color_white, color_black, 3, 1, 6, 3, 0>>,
                         <<0, 0, 0, 0, 0, 0, 0, 0, 0>>)
             \cup Inputs(<<1, 2, color_white, color_black, 3, 1, 5, 20, 7>>,
                         <<0, 0, 0, 0, 0, 0, 0, 0, 0>>) :
        Call("draw_signed_float", i,
             draw_signed_float(i.args[1], i.args[2], i.args[3], i.args[4], i.args[5],
                               i.args[6], i.args[7], i.args[8], i.args[9]))

MoveScreenArea ==
    \E i \in Inputs(<<2, 5, color_black, 10, 20, 30, 40>>, <<1, 2, 2, 2, 2, 2, 2>>) :
        Call("move_screen_area", i,
             move_screen_area(i.args[1], i.args[2], i.args[3], i.args[4], i.args[5],
                              i.args[6], i.args[7]))

(***************************************************************************)
(* The field encoders called on their own (lines 126-151): word(), long()  *)
(* and double_64() are methods a caller can use to build a frame itself.   *)
(* 16909060 is 0x01020304; 2147483647 is the largest value checked.        *)
(***************************************************************************)
Word ==
    \E i \in Inputs(<<258>>, <<2>>)
             \cup UNION {Inputs(<<v>>, <<0>>) : v \in {0, 1, 255, 256, 65535}} :
        Call("word", i, <<word(i.args[1])>>)

Long ==
    \E i \in Inputs(<<16909060>>, <<4>>)
             \cup UNION {Inputs(<<v>>, <<0>>) : v \in {0, 255, 65536, 2147483647}} :
        Call("long", i, <<long(i.args[1])>>)

Double64 ==
    \E i \in Inputs(<<16909060>>, <<8>>)
             \cup UNION {Inputs(<<v>>, <<0>>) : v \in {0, 256, 65535, 2147483647}} :
        Call("double_64", i, <<double_64(i.args[1])>>)

DrawingCommands ==
    {"draw_point", "draw_line", "draw_rectangle", "draw_circle", "draw_string",
     "draw_int_value", "draw_float_value", "draw_signed_float", "move_screen_area"}

(***************************************************************************)
(* The receive callback (lines 740-746), run by the transport on its own   *)
(* thread, one invocation at a time.  `log` on line 746 is no name of the  *)
(* module (only the method self.log exists): the call ends with NameError, *)
(* after the bytes were appended and the lock released.                    *)
(***************************************************************************)
Sentinel == <<170, 0, 79, 75>>   \* 0xAA 0x00 'O' 'K'

Chunks == {Sentinel, <<170, 0>>, <<85>>}

CbCall ==
    /\ cb_pc = "idle"
    /\ ncb < MaxCallbacks
    /\ \E d \in Chunks : cb_data' = d
    /\ cb_pc' = "acquire"
    /\ cb_exc' = None
    /\ ncb' = ncb + 1
    /\ UNCHANGED inst_vars
    /\ UNCHANGED <<frame_vars, pc, hs_vars, rx_vars, arrived>>

\* the callback as it would be if it entered without waiting for the lock
CbAcquire_no_wait ==
    /\ cb_pc = "acquire"
    /\ lock' = "cb"
    /\ cb_pc' = "append"
    /\ UNCHANGED inst_vars
    /\ UNCHANGED <<frame_vars, pc, hs_vars, serial_data, data_read, drained, sr_depth,
                   cb_data, cb_exc, ncb, arrived>>

\* self.lock.acquire()
CbAcquire ==
    /\ cb_pc = "acquire"
    /\ lock = "free"
    /\ lock' = "cb"
    /\ cb_pc' = "append"
    /\ UNCHANGED inst_vars
    /\ UNCHANGED <<frame_vars, pc, hs_vars, serial_data, data_read, drained, sr_depth,
                   cb_data, cb_exc, ncb, arrived>>

\* one pass of `for byte in data: self.serial_data.append(byte)`
CbAppend ==
    /\ cb_pc = "append"
    /\ cb_data # <<>>
    /\ serial_data' = Append(serial_data, Head(cb_data))
    /\ arrived' = Append(arrived, Head(cb_data))
    /\ cb_data' = Tail(cb_data)
    /\ UNCHANGED inst_vars
    /\ UNCHANGED <<frame_vars, pc, hs_vars, lock, data_read, drained, sr_depth,
                   cb_pc, cb_exc, ncb>>

\* self.lock.release()
CbRelease ==
    /\ cb_pc = "append"
    /\ cb_data = <<>>
    /\ lock' = "free"
    /\ cb_pc' = "log"
    /\ UNCHANGED inst_vars
    /\ UNCHANGED <<frame_vars, pc, hs_vars, serial_data, data_read, drained, sr_depth,
                   cb_data, cb_exc, ncb, arrived>>

\* byte_debug = ...; log(...): NameError
CbLog ==
    /\ cb_pc = "log"
    /\ cb_exc' = "NameError"
    /\ cb_pc' = "idle"
    /\ UNCHANGED inst_vars
    /\ UNCHANGED <<frame_vars, pc, hs_vars, rx_vars, cb_data, ncb, arrived>>

(***************************************************************************)
(* _serial_read (lines 748-753), statement by statement.  Between          *)
(* `data = self.serial_data` and `self.serial_data = bytearray()` the two  *)
(* names are one object; the lock is held, so nothing is appended to it.   *)
(***************************************************************************)
\* a caller other than handshake() calls _serial_read()
SerialRead ==
    /\ pc = "idle"
    /\ Len(drained) < MaxReads
    /\ pc' = "sr_acquire"
    /\ sr_depth' = "top"
    /\ call' = [name |-> "_serial_read", bad |-> FALSE, args |-> <<>>, frame |-> data_frame]
    /\ nlog0' = Len(wlog)
    /\ exc' = None
    /\ UNCHANGED inst_vars
    /\ UNCHANGED <<data_frame, appended, wlog, ncalls, hs_vars, serial_data, lock, data_read,
                   drained, cb_vars>>

\* self.lock.acquire()
SrAcquire ==
    /\ pc = "sr_acquire"
    /\ lock = "free"
    /\ lock' = "drv"
    /\ pc' = "sr_take"
    /\ UNCHANGED inst_vars
    /\ UNCHANGED <<frame_vars, hs_vars, serial_data, data_read, drained, sr_depth, cb_vars>>

\* data = self.serial_data
SrTake ==
    /\ pc = "sr_take"
    /\ data_read' = serial_data
    /\ pc' = "sr_clear"
    /\ UNCHANGED inst_vars
    /\ UNCHANGED <<frame_vars, hs_vars, serial_data, lock, drained, sr_depth, cb_vars>>

\* _serial_read as it would be without the reset of the buffer
SrClear_keeps_buffer ==
    /\ pc = "sr_clear"
    /\ pc' = "sr_release"
    /\ UNCHANGED inst_vars
    /\ UNCHANGED <<frame_vars, hs_vars, serial_data, lock, data_read, drained, sr_depth,
                   cb_vars>>

\* self.serial_data = bytearray()
SrClear ==
    /\ pc = "sr_clear"
    /\ serial_data' = <<>>
    /\ pc' = "sr_release"
    /\ UNCHANGED inst_vars
    /\ UNCHANGED <<frame_vars, hs_vars, lock, data_read, drained, sr_depth, cb_vars>>

\* self.lock.release(); return data
SrRelease ==
    /\ pc = "sr_release"
    /\ lock' = "free"
    /\ drained' = Append(drained, data_read)
    /\ collected' = IF sr_depth = "handshake" THEN collected \o data_read ELSE collected
    /\ pc' = IF sr_depth = "handshake" THEN "hs_check" ELSE "idle"
    /\ UNCHANGED inst_vars
    /\ UNCHANGED <<frame_vars, caller, req, databuf, retval, polls, attempts,
                   serial_data, data_read, sr_depth, cb_vars>>

(***************************************************************************)
(* handshake (lines 179-208) and init_display (lines 107-115).             *)
(***************************************************************************)
NoData == [i \in 0..(max_retry - 1) |-> NoByte]   \* [None] * max_retry

\* line 206: `and` yields False at the first false operand; chr(None) raises TypeError
handshake_retval(r, buf) ==
    IF ~(r >= 3) THEN "False"
    ELSE IF buf[0] # 170 THEN "False"
    ELSE IF buf[1] # 0 THEN "False"
    ELSE IF buf[2] = NoByte THEN "TypeError"
    ELSE IF buf[2] # 79 THEN "False"
    ELSE IF buf[3] = NoByte THEN "TypeError"
    ELSE IF buf[3] # 75 THEN "False"
    ELSE "True"

\* the three calls that follow the loop of init_display
init_followup == jpg_showandcache(0) \o frame_setdir(1) \o update_lcd

\* a caller calls init_display(): `while not self.handshake()` makes the first call
InitDisplay ==
    /\ pc = "idle"
    /\ attempts < MaxAttempts
    /\ caller' = "init_display"
    /\ pc' = "hs_send"
    /\ call' = [name |-> "init_display", bad |-> FALSE, args |-> <<>>, frame |-> data_frame]
    /\ nlog0' = Len(wlog)
    /\ exc' = None
    /\ retval' = "none"
    /\ UNCHANGED inst_vars
    /\ UNCHANGED <<data_frame, appended, wlog, ncalls, req, databuf, polls, attempts, collected,
                   rx_vars, cb_vars>>

\* a caller calls handshake() itself
Handshake ==
    /\ pc = "idle"
    /\ attempts < MaxAttempts
    /\ caller' = "top"
    /\ pc' = "hs_send"
    /\ call' = [name |-> "handshake", bad |-> FALSE, args |-> <<>>, frame |-> data_frame]
    /\ nlog0' = Len(wlog)
    /\ exc' = None
    /\ retval' = "none"
    /\ UNCHANGED inst_vars
    /\ UNCHANGED <<data_frame, appended, wlog, ncalls, req, databuf, polls, attempts, collected,
                   rx_vars, cb_vars>>

\* lines 188-194: self.byte(self.cmd_handshake); self.send(); sleep; the locals
HsSend ==
    /\ pc = "hs_send"
    /\ attempts < MaxAttempts
    /\ LET r == Exec(Builder,
                     <<byte(cmd_handshake), send>>)
       IN  /\ data_frame' = r.frame
           /\ appended' = r.app
           /\ wlog' = r.log
    /\ attempts' = attempts + 1
    /\ req' = 0
    /\ databuf' = NoData
    /\ polls' = 0
    /\ collected' = <<>>
    /\ pc' = "hs_loop"
    /\ UNCHANGED inst_vars
    /\ UNCHANGED <<exc, call, nlog0, ncalls, caller, retval, rx_vars, cb_vars>>

\* line 195: `while (req<max_retry)`, and the call of _serial_read() on line 196
HsLoop ==
    /\ pc = "hs_loop"
    /\ IF req < max_retry
       THEN /\ pc' = "sr_acquire"
            /\ sr_depth' = "handshake"
            /\ polls' = polls + 1
       ELSE /\ pc' = "hs_return"
            /\ UNCHANGED <<sr_depth, polls>>
    /\ UNCHANGED inst_vars
    /\ UNCHANGED <<frame_vars, caller, req, databuf, retval, attempts, collected,
                   serial_data, lock, data_read, drained, cb_vars>>

\* lines 197-205.  With data read, line 198 evaluates `struct.unpack`: the module
\* imports logging, time, math and Lock only, so the name lookup raises NameError
\* before databuf is assigned; lines 199-203 (whose `recnum` is no name either) are
\* never reached.  The exception leaves handshake() and, uncaught, init_display().
HsCheck ==
    /\ pc = "hs_check"
    /\ IF Len(data_read) > 0
       THEN /\ exc' = "NameError"
            /\ pc' = "idle"
            /\ req' = req
       ELSE /\ req' = req + 1
            /\ pc' = "hs_loop"
            /\ exc' = exc
    /\ UNCHANGED inst_vars
    /\ UNCHANGED <<data_frame, appended, wlog, call, nlog0, ncalls, caller, databuf, retval, polls,
                   attempts, collected, rx_vars, cb_vars>>

\* lines 206-208, and in init_display the test of the loop and what follows it
HsReturn ==
    /\ pc = "hs_return"
    /\ LET rv == handshake_retval(req, databuf)
           fu == Exec(Builder, init_followup)
       IN  IF rv = "TypeError"
           THEN /\ exc' = "TypeError"
                /\ pc' = "idle"
                /\ UNCHANGED <<data_frame, appended, wlog, retval>>
           ELSE /\ retval' = rv
                /\ IF caller = "init_display" /\ rv = "True"
                   THEN /\ data_frame' = fu.frame
                        /\ appended' = fu.app
                        /\ wlog' = fu.log
                        /\ exc' = fu.exc
                        /\ pc' = "idle"
                   ELSE /\ pc' = IF caller = "init_display" THEN "hs_send" ELSE "idle"
                        /\ UNCHANGED <<data_frame, appended, wlog, exc>>
    /\ UNCHANGED inst_vars
    /\ UNCHANGED <<call, nlog0, ncalls, caller, req, databuf, polls, attempts, collected,
                   rx_vars, cb_vars>>

(***************************************************************************)
(* Two instances (lines 20-23, 117-177).  data_frame = [] is an attribute  *)
(* of the class.  `self.data_frame += ...` reads it through the instance,  *)
(* extends that list in place and binds the same list to the instance, so  *)
(* until an instance's send() rebinds self.data_frame to data_frame_head   *)
(* (line 174) its frame is the list of the class; afterwards it is a bytes *)
(* object of its own.  The list of the class is never emptied.             *)
(* Every byte is kept with the instance whose call appended it.            *)
(***************************************************************************)
Tag(i, b) == [k \in 1..Len(b) |-> [v |-> b[k], by |-> i]]

Untag(f) == [k \in 1..Len(f) |-> f[k].v]

\* b, whose first Len(f0) bytes are those of f0, with the rest appended by i
Retag(f0, i, b) == f0 \o Tag(i, SubSeq(b, Len(f0) + 1, Len(b)))

\* self.data_frame of instance i
InstFrame(i) == IF inst[i].own THEN inst[i].frame ELSE cls_data_frame

\* a call of a command or builder method on instance i: the whole body runs
InstCall(i, prog) ==
    /\ ninst < MaxInstCalls
    /\ LET cur  == InstFrame(i)
           r    == Exec([frame |-> Untag(cur), app |-> <<>>, log |-> <<>>, exc |-> None], prog)
           sent == r.log # <<>>
       IN  /\ inst_wlog' =
                 [inst_wlog EXCEPT ![i] =
                    @ \o [k \in 1..Len(r.log) |->
                             IF k = 1 THEN Retag(cur, i, r.log[1]) ELSE Tag(i, r.log[k])]]
           /\ inst' =
                 [inst EXCEPT ![i] =
                    IF sent THEN [own |-> TRUE, frame |-> Tag(i, r.frame)]
                    ELSE IF @.own THEN [@ EXCEPT !.frame = Retag(cur, i, r.frame)]
                    ELSE @]
           /\ cls_data_frame' =
                 IF inst[i].own THEN cls_data_frame
                 ELSE IF sent THEN Retag(cur, i, r.log[1])
                 ELSE Retag(cur, i, r.frame)
           /\ inst_exc' = [inst_exc EXCEPT ![i] = r.exc]
    /\ ninst' = ninst + 1
    /\ UNCHANGED <<frame_vars, pc, hs_vars, rx_vars, cb_vars>>

InstByte == \E i \in Instances, v \in {1, 256} : InstCall(i, <<byte(v)>>)

InstSend == \E i \in Instances : InstCall(i, <<send>>)

InstUpdateLcd == \E i \in Instances : InstCall(i, update_lcd)

InstFrameSetdir == \E i \in Instances, dir \in {1, 256} : InstCall(i, frame_setdir(dir))

NextInst == InstByte \/ InstSend \/ InstUpdateLcd \/ InstFrameSetdir

NextDraw ==
    \/ DrawPoint \/ DrawLine \/ DrawRectangle \/ DrawCircle \/ DrawString
    \/ DrawIntValue \/ DrawFloatValue \/ DrawSignedFloat \/ MoveScreenArea

NextCmd ==
    \/ FrameSetdir \/ UpdateLcd \/ SetBacklightBrightness \/ JpgShowAndCache
    \/ SetPalette \/ ClearScreen \/ DrawIcon \/ DrawImage

NextCb == CbCall \/ CbAcquire \/ CbAppend \/ CbRelease \/ CbLog

NextRead == SrAcquire \/ SrTake \/ SrClear \/ SrRelease

NextHs == HsSend \/ HsLoop \/ HsCheck \/ HsReturn

NextPack == Word \/ Long \/ Double64

Next ==
    \/ NextCmd \/ NextDraw \/ NextCb \/ SerialRead \/ NextRead
    \/ InitDisplay \/ Handshake \/ NextHs \/ NextPack \/ NextInst

\* every operation of the driver and the receive callback
Spec == Init /\ [][Next]_vars

\* the commands that are one frame each
SpecCmd == Init /\ [][NextCmd]_vars

\* the drawing commands
SpecDraw == Init /\ [][NextDraw]_vars

\* the one-frame commands together with the commands that send two frames
NextSend == NextCmd \/ DrawRectangle \/ DrawSignedFloat

SpecSend == Init /\ [][NextSend]_vars

\* two instances, their calls interleaved
SpecInst == Init /\ [][NextInst]_vars

\* the multi-byte field encoders called on their own
SpecPack == Init /\ [][NextPack]_vars

\* the commands that take a font size
NextText == DrawString \/ DrawIntValue \/ DrawFloatValue

SpecText == Init /\ [][NextText]_vars

\* draw_circle alone
SpecCircle == Init /\ [][DrawCircle]_vars

\* the receive buffer: the callback against direct _serial_read() calls
SpecRx == Init /\ [][NextCb \/ SerialRead \/ NextRead]_vars

\* the same, with both threads kept running: a thread that can take its next
\* statement takes it (the statements between acquire() and release() never
\* wait), and a thread waiting in acquire() gets the lock if it is free again
\* and again
SpecRxFair ==
    /\ SpecRx
    /\ WF_vars(CbAppend) /\ WF_vars(CbRelease)
    /\ WF_vars(SrTake) /\ WF_vars(SrClear) /\ WF_vars(SrRelease)
    /\ SF_vars(CbAcquire) /\ SF_vars(SrAcquire)

\* init_display against the receive callback
SpecInit == Init /\ [][InitDisplay \/ NextHs \/ NextRead \/ NextCb]_vars

\* handshake() called on its own, against the receive callback
SpecHs == Init /\ [][Handshake \/ NextHs \/ NextRead \/ NextCb]_vars

(***************************************************************************)
(* Helpers of the properties.                                              *)
(***************************************************************************)
IsPrefix(p, q) == Len(p) <= Len(q) /\ SubSeq(q, 1, Len(p)) = p

RECURSIVE Flat(_)
Flat(ss) == IF ss = <<>> THEN <<>> ELSE Head(ss) \o Flat(Tail(ss))

\* the frames of the write log: its entries at the odd positions
Frames == {k \in 1..Len(wlog) : k % 2 = 1}

\* a call of the named operation is over
Ended(name) == call.name = name /\ pc = "idle"

\* a call of the named operation is over and none of its arguments was replaced
EndedWithArgs(name) == Ended(name) /\ ~call.bad

\* int.from_bytes(b, "big")
RECURSIVE from_bytes(_)
from_bytes(b) ==
    IF b = <<>> THEN 0 ELSE from_bytes(SubSeq(b, 1, Len(b) - 1)) * 256 + b[Len(b)]

\* the j-th frame the last call wrote, without the content it was built on:
\* what the frame held when the call started for its first frame, the head
\* send() left for the later ones
CallFrame(j) ==
    LET w == wlog[nlog0 + 2 * j - 1]
    IN  IF j = 1 THEN SubSeq(w, Len(call.frame) + 1, Len(w)) ELSE Tail(w)

\* the n-byte big-endian field at position i of a frame body
Field(b, i, n) == from_bytes(SubSeq(b, i, i + n - 1))

\* the writes of the last call are exactly n frames, each followed by the
\* tail, the first built on the frame content the call started from and the
\* later ones on the head
WroteFrames(n) ==
    /\ Len(wlog) = nlog0 + 2 * n
    /\ \A k \in 1..n :
         /\ wlog[nlog0 + 2 * k] = data_frame_tail
         /\ wlog[nlog0 + 2 * k - 1] # data_frame_tail
         /\ IsPrefix(IF k = 1 THEN call.frame ELSE data_frame_head, wlog[nlog0 + 2 * k - 1])

(***************************************************************************)
(* C1: every send() makes exactly two writes, the frame built on the       *)
(* current frame content and then the terminator CC 33 C3 3C, with nothing *)
(* between them: every step extends the write log by pairs <frame,         *)
(* terminator>, the first frame of the step starting with the frame        *)
(* content before it and each later one with what send() left.             *)
(***************************************************************************)
C1_SendWritesFrameThenTail ==
    [][LET n == Len(wlog)
           m == Len(wlog')
       IN  /\ m >= n
           /\ SubSeq(wlog', 1, n) = wlog
           /\ (m - n) % 2 = 0
           /\ \A k \in 1..((m - n) \div 2) :
                /\ wlog'[n + 2 * k] = data_frame_tail
                /\ wlog'[n + 2 * k - 1] # data_frame_tail
                /\ IsPrefix(IF k = 1 THEN data_frame ELSE data_frame_head,
                            wlog'[n + 2 * k - 1])]_vars

\* a second command, of two frames, has been sent after a first
C1_Witness ==
    /\ call.name = "draw_rectangle"
    /\ exc = None
    /\ nlog0 >= 2
    /\ Len(wlog) = nlog0 + 4

(***************************************************************************)
(* C3: no byte is lost or duplicated between the callback's appends and    *)
(* the drains: the drained chunks in order, then the chunk a drain has     *)
(* taken and not returned yet, then the buffer, are the appended bytes in  *)
(* arrival order; a drain leaves the buffer empty, and with the buffer     *)
(* empty and no drain under way the drained byte count is the appended     *)
(* byte count.                                                             *)
(***************************************************************************)
C3_NoLossNoDup ==
    /\ arrived = Flat(drained)
                 \o (IF pc = "sr_release" THEN data_read ELSE <<>>)
                 \o serial_data
    /\ pc = "sr_release" => serial_data = <<>>
    /\ (serial_data = <<>> /\ pc = "idle") => Len(Flat(drained)) = Len(arrived)

\* two callbacks' bytes were drained by two different drains, none left behind
C3_Witness ==
    /\ pc = "idle"
    /\ ncb = 2 /\ cb_pc = "idle"
    /\ serial_data = <<>>
    /\ Len(arrived) >= 3
    /\ \E i, j \in 1..Len(drained) : i < j /\ drained[i] # <<>> /\ drained[j] # <<>>

(***************************************************************************)
(* C8 (as claimed): a drawing command called with an out-of-range          *)
(* argument fails with an error and has written nothing to the transport.  *)
(***************************************************************************)
C8_RejectedBeforeTransport ==
    (call.name \in DrawingCommands /\ call.bad) =>
        (exc # None /\ Len(wlog) = nlog0)

(***************************************************************************)
(* C9 (as claimed): the frame is empty after send(), so that the frame     *)
(* holds only the bytes appended since the last send().                    *)
(***************************************************************************)
C9_FrameEmptyAfterSend == data_frame = appended

(***************************************************************************)
(* C9 (amended): after send() the frame is the one-byte head 0xAA: once    *)
(* the instance has sent, its frame is 0xAA followed by exactly the bytes  *)
(* appended since the last send(), and every frame it transmits after the  *)
(* first begins with 0xAA.                                                 *)
(***************************************************************************)
C9_FrameIsHeadAfterSend ==
    /\ wlog # <<>> => data_frame = data_frame_head \o appended
    /\ \A k \in Frames : k > 1 => IsPrefix(data_frame_head, wlog[k])

\* two commands have been sent and the second send() has just returned
C9_Witness ==
    /\ Len(wlog) = 4
    /\ exc = None
    /\ appended = <<>>
    /\ data_frame = data_frame_head

(***************************************************************************)
(* C10 (as claimed): every frame written to the transport, the first one   *)
(* included, begins with the preamble byte 0xAA.                           *)
(***************************************************************************)
C10_EveryFrameStartsWithHead ==
    \A k \in Frames : IsPrefix(data_frame_head, wlog[k])

(***************************************************************************)
(* C2 (as claimed): a handshake() call that is over has returned a value,  *)
(* and the value is success exactly when the first four bytes it collected *)
(* are AA 00 4F 4B.                                                        *)
(***************************************************************************)
C2_SuccessIffSentinel ==
    Ended("handshake") =>
        /\ exc = None
        /\ retval \in {"True", "False"}
        /\ retval = "True" <=> IsPrefix(Sentinel, collected)

(***************************************************************************)
(* C4 (as claimed): init_display writes a follow-up frame (show-and-cache   *)
(* image 0, screen direction 1, update LCD) only after a handshake() call  *)
(* has returned success; and when it is over after an attempt that the     *)
(* panel answered with the sentinel, what it has written is its handshake  *)
(* frames and then the three follow-up frames, once each, in that order,   *)
(* with nothing after them.                                                *)
(***************************************************************************)
FollowUpWrites ==
    <<data_frame_head \o <<34, 0, 0>>, data_frame_tail,
      data_frame_head \o <<cmd_frame_setdir, 90, 165, 1>>, data_frame_tail,
      data_frame_head \o <<cmd_update_lcd>>, data_frame_tail>>

IsHandshakeFrame(f) == f \in {<<cmd_handshake>>, data_frame_head \o <<cmd_handshake>>}

C4_FollowUpAfterSuccess ==
    call.name = "init_display" =>
        LET own == SubSeq(wlog, nlog0 + 1, Len(wlog))
            n   == Len(own) - Len(FollowUpWrites)
        IN  /\ (\E k \in 1..Len(own) : k % 2 = 1 /\ ~IsHandshakeFrame(own[k]))
                  => retval = "True"
            /\ (pc = "idle" /\ IsPrefix(Sentinel, collected)) =>
                  /\ retval = "True"
                  /\ n >= 2
                  /\ SubSeq(own, n + 1, Len(own)) = FollowUpWrites
                  /\ \A k \in 1..n : k % 2 = 1 => IsHandshakeFrame(own[k])

(***************************************************************************)
(* C5 (as claimed): init_display returns only after an attempt that        *)
(* succeeded; after a failed attempt it is still running, about to make    *)
(* the next attempt; and the attempt that the panel answers with the       *)
(* sentinel ends it by a return.                                           *)
(***************************************************************************)
C5_RetryUntilSuccess ==
    /\ (Ended("init_display") /\ exc = None) => retval = "True"
    /\ (call.name = "init_display" /\ retval = "False") => pc # "idle"
    /\ (Ended("init_display") /\ IsPrefix(Sentinel, collected))
          => (exc = None /\ retval = "True")

(***************************************************************************)
(* C6 (as claimed): a handshake() call drains the receive buffer at most   *)
(* 26 times and then returns, whatever was delivered meanwhile.            *)
(***************************************************************************)
C6_AtMost26DrainsThenReturn ==
    /\ polls <= max_retry
    /\ Ended("handshake") => (polls <= max_retry /\ exc = None)

(***************************************************************************)
(* C7 (as claimed): when the attempt collects a byte and byte 0 is then    *)
(* not 0xAA, the collected bytes are discarded, the poll index restarts at *)
(* 0 and the attempt goes on; a byte collected while byte 0 is 0xAA is     *)
(* kept and the attempt goes on.                                           *)
(***************************************************************************)
C7_ResetOnBadFirstByte ==
    [][(pc = "hs_check" /\ Len(data_read) > 0) =>
          /\ pc' = "hs_loop"
          /\ LET byte0 == IF req = 0 THEN Head(data_read) ELSE databuf[0]
             IN  IF byte0 # 170
                 THEN req' = 0 /\ databuf' = NoData
                 ELSE databuf' = [databuf EXCEPT ![req] = Head(data_read)]]_vars

(***************************************************************************)
(* C11: the callback's append loop and _serial_read's drain-and-clear are  *)
(* never between acquire() and release() at the same time; the lock is     *)
(* held exactly while one of them is there, so it is free whenever neither *)
(* is executing; every acquire() is followed by the release() of the same  *)
(* thread, and a thread waiting in acquire() gets the lock.                *)
(***************************************************************************)
CbInside == cb_pc = "append"

SrInside == pc \in {"sr_take", "sr_clear", "sr_release"}

C11_LockExcludesAndIsReleased ==
    /\ [](~(CbInside /\ SrInside))
    /\ []((lock = "cb") <=> CbInside)
    /\ []((lock = "drv") <=> SrInside)
    /\ []((~CbInside /\ ~SrInside) => lock = "free")
    /\ (lock = "cb") ~> (lock = "free")
    /\ (lock = "drv") ~> (lock = "free")
    /\ (cb_pc = "acquire") ~> CbInside
    /\ (pc = "sr_acquire") ~> SrInside

\* the callback waits in acquire() while _serial_read holds the lock over
\* bytes an earlier callback appended
C11_Witness ==
    /\ cb_pc = "acquire"
    /\ lock = "drv"
    /\ pc = "sr_clear"
    /\ data_read # <<>>

CircleSteps == (Len(wlog) - nlog0) \div 16

StepA(k) == Field(CallFrame(8 * (k - 1) + 1), 6, 2) - call.args[2]

StepB(k) == Field(CallFrame(8 * (k - 1) + 1), 8, 2) - call.args[3]

(***************************************************************************)
(* C13 (as claimed): for r >= 1 draw_circle writes 8 point frames per      *)
(* step, one step for each a = 0, 1, 2, ... with a <= b, b being the value *)
(* computed for that same a (r - 1 for a = 0, sqrt(r*r - a*a) otherwise,   *)
(* so a <= b is 2*a*a <= r*r), and no step has a > b.                      *)
(***************************************************************************)
C13_StepsWhileANotAboveB ==
    EndedWithArgs("draw_circle") =>
        LET r == call.args[4]
        IN  /\ exc = None
            /\ WroteFrames(8 * CircleSteps)
            /\ CircleSteps = Cardinality({a \in 0..r : a = 0 \/ 2 * a * a <= r * r})
            /\ \A k \in 1..CircleSteps : StepA(k) = k - 1 /\ StepA(k) <= StepB(k)

(***************************************************************************)
(* C13 (amended): for r >= 1 draw_circle writes 8 point frames per step.   *)
(* Step a draws with b = r - 1 for a = 0 and b = sqrt(r*r - a*a)           *)
(* otherwise, but the test `a <= b` that admits it reads the b of the step *)
(* before: there is a step for a = 0, a step for each further a that is    *)
(* not above the b of step a - 1, and the loop stops at the first a above  *)
(* the b of the step before it.  (The last step can have a > b.)           *)
(***************************************************************************)
C13_StepsWhileANotAbovePreviousB ==
    EndedWithArgs("draw_circle") =>
        LET r == call.args[4]
            n == CircleSteps
        IN  /\ exc = None
            /\ n >= 1
            /\ WroteFrames(8 * n)
            /\ \A j \in 1..(8 * n) : Len(CallFrame(j)) = 9
            /\ \A k \in 1..n :
                 LET a == k - 1
                     B == StepB(k)
                 IN  /\ StepA(k) = a
                     /\ IF a = 0 THEN B = r - 1
                        ELSE B * B <= r * r - a * a /\ r * r - a * a < (B + 1) * (B + 1)
                     /\ k > 1 => a <= StepB(k - 1)
            /\ n > StepB(n)

\* a circle of radius 4 was drawn: its fourth step has a = 3 above b = sqrt(7)
C13_Witness ==
    /\ EndedWithArgs("draw_circle")
    /\ call.args[4] = 4
    /\ exc = None
    /\ CircleSteps = 4
    /\ StepA(4) = 3 /\ StepB(4) = 2

(***************************************************************************)
(* C14: for a level in 0..255 set_backlight_brightness transmits one frame *)
(* whose value byte is the level raised to 0x1F if it is below it, and the *)
(* call raises nothing.                                                    *)
(***************************************************************************)
C14_BrightnessFloor ==
    (EndedWithArgs("set_backlight_brightness") /\ call.args[1] \in 0..255) =>
        LET level == call.args[1]
        IN  /\ exc = None
            /\ WroteFrames(1)
            /\ CallFrame(1) = <<48, IF level < 31 THEN 31 ELSE level>>   \* 0x30, value

\* a level below the floor and a level above it have both been sent
C14_Witness ==
    /\ EndedWithArgs("set_backlight_brightness")
    /\ call.args[1] = 30
    /\ CallFrame(1)[2] = 31
    /\ nlog0 = 2
    /\ wlog[1] = <<48, 255>>

(***************************************************************************)
(* C15: for x >= 0 and y >= 0, also beyond the screen and beyond 16 bits,  *)
(* draw_icon transmits one frame whose coordinates are min(x, 271) and     *)
(* min(y, 479), and the call raises nothing.                               *)
(***************************************************************************)
C15_IconPositionClamped ==
    (EndedWithArgs("draw_icon") /\ call.args[4] >= 0 /\ call.args[5] >= 0) =>
        LET x == call.args[4]
            y == call.args[5]
            f == CallFrame(1)
        IN  /\ exc = None
            /\ WroteFrames(1)
            /\ Len(f) = 8
            /\ f[1] = 35                                  \* 0x23: draw icon
            /\ Field(f, 2, 2) = (IF x < 271 THEN x ELSE 271)
            /\ Field(f, 4, 2) = (IF y < 479 THEN y ELSE 479)
            /\ f[6] = call.args[2]
            /\ Field(f, 7, 2) = call.args[3]

\* an icon placed beyond the 16-bit range was sent at the last pixel
C15_Witness ==
    /\ EndedWithArgs("draw_icon")
    /\ call.args[4] > 65535 /\ call.args[5] > 65535
    /\ exc = None
    /\ Field(CallFrame(1), 2, 2) = 271
    /\ Field(CallFrame(1), 4, 2) = 479

(***************************************************************************)
(* The commands that take a font size, the size the last call was given,   *)
(* and the mode byte the same call would pack with size 0.                 *)
(***************************************************************************)
TextCommands == {"draw_string", "draw_int_value", "draw_float_value"}

FontSize == IF call.name = "draw_string" THEN call.args[2] ELSE call.args[4]

ModeWithSize0 ==
    IF call.name = "draw_string"
    THEN BitOr(BitOr(0, call.args[1] * 64), 128)
    ELSE ModeByte(call.args[1], call.args[2], call.args[3], 0)

(***************************************************************************)
(* C16 (as claimed): a draw_string, draw_int_value or draw_float_value     *)
(* call with a font size outside 0..9 fails and transmits nothing, and in  *)
(* a frame such a command transmits the bits 7..4 of the mode byte are     *)
(* what the flags alone make them, whatever the font size.                 *)
(***************************************************************************)
C16_BadFontSizeRejected ==
    (call.name \in TextCommands /\ pc = "idle" /\ ~call.bad) =>
        /\ FontSize \notin 0..9 => (exc # None /\ Len(wlog) = nlog0)
        /\ Len(wlog) > nlog0 => CallFrame(1)[2] \div 16 = ModeWithSize0 \div 16

(***************************************************************************)
(* C17 (as claimed): in a frame draw_string transmits for a font size in   *)
(* 0..9, the mode byte has bit 7 = show_background, bit 6 = 1, bits 5-4 =  *)
(* 0 and bits 3-0 = the font size.                                         *)
(***************************************************************************)
C17_ShowOnBit7WidthOnBit6 ==
    (EndedWithArgs("draw_string") /\ call.args[2] \in 0..9) =>
        /\ exc = None
        /\ WroteFrames(1)
        /\ CallFrame(1)[2] = call.args[1] * 128 + 64 + call.args[2]

(***************************************************************************)
(* C17 (amended): in a frame draw_string transmits for a font size in      *)
(* 0..9, the mode byte has bit 7 (width-adjust) = 1, bit 6 =               *)
(* show_background, bits 5-4 = 0 and bits 3-0 = the font size.             *)
(***************************************************************************)
C17_WidthOnBit7ShowOnBit6 ==
    (EndedWithArgs("draw_string") /\ call.args[2] \in 0..9) =>
        LET m == CallFrame(1)[2]
        IN  /\ exc = None
            /\ WroteFrames(1)
            /\ CallFrame(1)[1] = 17                      \* 0x11: draw text
            /\ m \div 128 = 1
            /\ (m \div 64) % 2 = call.args[1]
            /\ (m \div 16) % 4 = 0
            /\ m % 16 = call.args[2]

\* a string was drawn without background in the largest font: mode byte 0x89
C17_Witness ==
    /\ EndedWithArgs("draw_string")
    /\ call.args[1] = 0 /\ call.args[2] = 9
    /\ exc = None
    /\ CallFrame(1)[2] = 137

(***************************************************************************)
(* C18 (as claimed): draw_image(id) with id in 0..255 does not fail and    *)
(* transmits exactly one frame, the show-image opcode 0x2200 followed by   *)
(* the id byte, and its terminator.                                        *)
(***************************************************************************)
C18_ImageFrameSent ==
    (EndedWithArgs("draw_image") /\ call.args[1] \in 0..255) =>
        /\ exc = None
        /\ WroteFrames(1)
        /\ CallFrame(1) = <<34, 0, call.args[1]>>

(***************************************************************************)
(* C19: draw_rectangle(mode, color, ...) with mode in {0, 1, 2} transmits  *)
(* exactly two frames: first a set-palette frame with foreground = color   *)
(* and background = white (0xFFFF), then one rectangle frame whose opcode  *)
(* is 0x05 for every mode, with the mode as the byte after it.             *)
(***************************************************************************)
C19_PaletteThenRectangle ==
    (EndedWithArgs("draw_rectangle") /\ call.args[1] \in {0, 1, 2}) =>
        LET p == CallFrame(1)
            f == CallFrame(2)
        IN  /\ exc = None
            /\ WroteFrames(2)
            /\ Len(p) = 5
            /\ p[1] = 64                                  \* 0x40: set palette
            /\ Field(p, 2, 2) = call.args[2]
            /\ Field(p, 4, 2) = 65535
            /\ Len(f) = 10
            /\ f[1] = 5                                   \* 0x05: rectangle
            /\ f[2] = call.args[1]
            /\ Field(f, 3, 2) = call.args[3]
            /\ Field(f, 5, 2) = call.args[4]
            /\ Field(f, 7, 2) = call.args[5]
            /\ Field(f, 9, 2) = call.args[6]

\* a rectangle of mode 1 and then one of mode 2 were drawn, with the same opcode
C19_Witness ==
    /\ EndedWithArgs("draw_rectangle")
    /\ call.args[1] = 2
    /\ nlog0 = 4
    /\ Len(wlog) = 8
    /\ wlog[3][3] = 1
    /\ wlog[3][2] = CallFrame(2)[1]

(***************************************************************************)
(* C20: for a v in the range of the field, the bytes word(v), long(v) and  *)
(* double_64(v) append to the frame are exactly 2, 4 and 8 bytes and are   *)
(* v as a big-endian unsigned integer.                                     *)
(***************************************************************************)
\* what the last call appended to the frame it started from
PackedBytes == SubSeq(data_frame, Len(call.frame) + 1, Len(data_frame))

C20_FieldRoundTrip ==
    (call.name \in {"word", "long", "double_64"} /\ pc = "idle" /\ ~call.bad) =>
        LET v == call.args[1]
            n == CASE call.name = "word" -> 2
                   [] call.name = "long" -> 4
                   [] call.name = "double_64" -> 8
        IN  /\ exc = None
            /\ IsPrefix(call.frame, data_frame)
            /\ Len(PackedBytes) = n
            /\ \A k \in 1..n : PackedBytes[k] \in 0..255
            /\ from_bytes(PackedBytes) = v

\* long(0x01020304) has appended 01 02 03 04 behind a word packed before it
C20_Witness ==
    /\ call.name = "long"
    /\ ~call.bad
    /\ call.args[1] = 16909060
    /\ Len(call.frame) = 2
    /\ PackedBytes = <<1, 2, 3, 4>>

(***************************************************************************)
(* C21 (as claimed): in every step of a draw_circle call with              *)
(* x_center >= r and y_center >= r, the eight points sent are mirror       *)
(* images about the centre: there is one integer B with the points         *)
(* (cx+a, cy+B), (cx+B, cy+a), (cx+B, cy-a), (cx+a, cy-B), (cx-a, cy-B),   *)
(* (cx-B, cy-a), (cx-B, cy+a), (cx-a, cy+B), in this order.                *)
(***************************************************************************)
\* the point (p_x, p_y) of the j-th frame of the last call
CirclePoint(j) == <<Field(CallFrame(j), 6, 2), Field(CallFrame(j), 8, 2)>>

C21_PointsMirrorAboutCentre ==
    (EndedWithArgs("draw_circle") /\ call.args[2] >= call.args[4]
                                  /\ call.args[3] >= call.args[4]) =>
        LET cx == call.args[2]
            cy == call.args[3]
            r  == call.args[4]
        IN  /\ exc = None
            /\ \A k \in 1..CircleSteps :
                 LET a == k - 1
                     o == 8 * (k - 1)
                 IN  \E B \in 0..r :
                        /\ CirclePoint(o + 1) = <<cx + a, cy + B>>
                        /\ CirclePoint(o + 2) = <<cx + B, cy + a>>
                        /\ CirclePoint(o + 3) = <<cx + B, cy - a>>
                        /\ CirclePoint(o + 4) = <<cx + a, cy - B>>
                        /\ CirclePoint(o + 5) = <<cx - a, cy - B>>
                        /\ CirclePoint(o + 6) = <<cx - B, cy - a>>
                        /\ CirclePoint(o + 7) = <<cx - B, cy + a>>
                        /\ CirclePoint(o + 8) = <<cx - a, cy + B>>

(***************************************************************************)
(* C22 (as claimed): a command that ends with an encoding error leaves the *)
(* frame as it was when the command started, so a command that succeeds    *)
(* builds its first frame on nothing but what send() left (the head, or    *)
(* the empty frame of a new instance): the frame holds only the command's  *)
(* own opcode and parameters.                                              *)
(***************************************************************************)
C22_FailedCommandLeavesFrame ==
    (pc = "idle" /\ call.name # "none") =>
        /\ exc = "OverflowError" => data_frame = call.frame
        /\ (exc = None /\ Len(wlog) > nlog0) => call.frame \in {<<>>, data_frame_head}

(***************************************************************************)
(* C23 (as claimed): two instances share no frame state: every byte of     *)
(* every frame an instance transmits was put into the frame by a call on   *)
(* that instance, whatever the interleaving of the calls on the two.       *)
(***************************************************************************)
C23_InstancesShareNoFrameState ==
    \A i \in Instances :
        \A k \in 1..Len(inst_wlog[i]) :
            \A j \in 1..Len(inst_wlog[i][k]) : inst_wlog[i][k][j].by = i

====
